---- MODULE Spec2Model ----
(***************************************************************************)
(* A model of lib/utils/ast-utils.js: the helpers that turn a plain        *)
(* key/value description into AST nodes and merge them into an existing    *)
(* object expression or `plugins` array.                                    *)
(*                                                                         *)
(* Strings are tuples of one-character strings (<<"a","b">> is "ab"), so   *)
(* that indexOf, split, join and Number() are computed, not assumed.       *)
(* A JavaScript value is a tagged record:                                  *)
(*   [t |-> "num", n], [t |-> "bool", b], [t |-> "str", s],                *)
(*   [t |-> "arr", a] (a sequence of values),                              *)
(*   [t |-> "obj", o] (a sequence of [k, v] in Object.keys order),         *)
(*   [t |-> "undef"], [t |-> "nan"].                                       *)
(* An AST node is a record with a `type` field and the fields the builders *)
(* of the AST toolkit give that type.  A call that ends in an exception    *)
(* (a TypeError on a missing field, a builder refusing an argument) gives  *)
(* the value Thrown; whatever it had mutated before that is dropped.       *)
(***************************************************************************)
EXTENDS Integers, Sequences, FiniteSets, TLC

VARIABLES tree, prev, call, hist

vars == <<tree, prev, call, hist>>

(***************************************************************************)
(* Bounds of the model.                                                    *)
(***************************************************************************)
MaxStrLen == 2

(***************************************************************************)
(* JavaScript values.                                                      *)
(***************************************************************************)
Num(n) == [t |-> "num", n |-> n]

Bool(b) == [t |-> "bool", b |-> b]

StrV(s) == [t |-> "str", s |-> s]

ArrV(a) == [t |-> "arr", a |-> a]

ObjV(o) == [t |-> "obj", o |-> o]

Undefined == [t |-> "undef"]

NaN == [t |-> "nan"]

Thrown == [type |-> "Thrown"]

NoNode == [type |-> "None"]

\* typeof val === "string"
IsString(v) == v.t = "str"

\* a primitive the description may hold: string, number or boolean
IsScalar(v) == v.t \in {"str", "num", "bool"}

(***************************************************************************)
(* Strings.                                                                *)
(***************************************************************************)
S_true == <<"t", "r", "u", "e">>

S_false == <<"f", "a", "l", "s", "e">>

S_inject == <<"i", "n", "j", "e", "c", "t">>

WhiteSpace == {" "}

DigitVal == [c \in {"0", "1", "2", "3", "4", "5", "6", "7", "8", "9"} |->
               CASE c = "0" -> 0 [] c = "1" -> 1 [] c = "2" -> 2 [] c = "3" -> 3
                 [] c = "4" -> 4 [] c = "5" -> 5 [] c = "6" -> 6 [] c = "7" -> 7
                 [] c = "8" -> 8 [] c = "9" -> 9]

RECURSIVE TrimLeft(_)
TrimLeft(s) ==
    IF s # <<>> /\ Head(s) \in WhiteSpace THEN TrimLeft(Tail(s)) ELSE s

RECURSIVE TrimRight(_)
TrimRight(s) ==
    IF s # <<>> /\ s[Len(s)] \in WhiteSpace
    THEN TrimRight(SubSeq(s, 1, Len(s) - 1))
    ELSE s

RECURSIVE DigitsValue(_)
DigitsValue(s) ==
    IF s = <<>> THEN 0
    ELSE 10 * DigitsValue(SubSeq(s, 1, Len(s) - 1)) + DigitVal[s[Len(s)]]

AllDigits(s) == s # <<>> /\ \A i \in 1..Len(s) : s[i] \in DOMAIN DigitVal

(***************************************************************************)
(* Number(val) on a string, as ECMAScript's StringToNumber does it for     *)
(* strings made of white space, a sign and decimal digits: white space is  *)
(* trimmed from both ends, what is left empty is 0, an optional sign and   *)
(* then digits only is that integer, anything else is NaN.  (The strings   *)
(* of the model hold no ".", exponent, radix prefix or "Infinity".)        *)
(***************************************************************************)
JsNumber(s) ==
    LET trimmed == TrimRight(TrimLeft(s))
        signed == trimmed # <<>> /\ Head(trimmed) \in {"-", "+"}
        body == IF signed THEN Tail(trimmed) ELSE trimmed
    IN  IF trimmed = <<>> THEN Num(0)
        ELSE IF AllDigits(body)
             THEN Num((IF Head(trimmed) = "-" THEN -1 ELSE 1) * DigitsValue(body))
             ELSE NaN

\* Number(val) for the values a literal may hold
ToNumber(v) ==
    CASE v.t = "str" -> JsNumber(v.s)
      [] v.t = "num" -> v
      [] v.t = "bool" -> Num(IF v.b THEN 1 ELSE 0)
      [] OTHER -> NaN

\* str.indexOf(sub) >= 0
Contains(str, sub) ==
    \E i \in 0..(Len(str) - Len(sub)) : SubSeq(str, i + 1, i + Len(sub)) = sub

(***************************************************************************)
(* Node builders of the AST toolkit.                                       *)
(***************************************************************************)
Identifier(name) == [type |-> "Identifier", name |-> name]

Literal(value) == [type |-> "Literal", value |-> value]

Property(key, value) == [type |-> "Property", key |-> key, value |-> value]

ObjectExpression(properties) ==
    [type |-> "ObjectExpression", properties |-> properties]

ArrayExpression(elements) == [type |-> "ArrayExpression", elements |-> elements]

MemberExpression(object, property) ==
    [type |-> "MemberExpression", object |-> object, property |-> property]

NewExpression(callee, arguments) ==
    [type |-> "NewExpression", callee |-> callee, arguments |-> arguments]

\* j.literal(value): the builder takes a string, a boolean or a number
BuildLiteral(value) == IF IsScalar(value) THEN Literal(value) ELSE Thrown

(***************************************************************************)
(* createLiteral: the three tests run one after the other.                 *)
(***************************************************************************)
createLiteral(val) ==
    LET v1 == IF IsString(val) /\ val.s = S_true THEN Bool(TRUE) ELSE val
        v2 == IF IsString(val) /\ val.s = S_false THEN Bool(FALSE) ELSE v1
        v3 == IF IsString(val) /\ ToNumber(val) # NaN THEN ToNumber(val) ELSE v2
    IN  BuildLiteral(v3)

(***************************************************************************)
(* createIdentifierOrLiteral: a string that is not "true", "false" or a    *)
(* number becomes an identifier.  (No value of the model carries __paths.) *)
(***************************************************************************)
createIdentifierOrLiteral(val) ==
    IF IsString(val)
    THEN IF val.s = S_true THEN Literal(Bool(TRUE))
         ELSE IF val.s = S_false THEN Literal(Bool(FALSE))
         ELSE IF ToNumber(val) # NaN THEN Literal(ToNumber(val))
         ELSE Identifier(val.s)
    ELSE BuildLiteral(val)

(***************************************************************************)
(* The scalars handed to the two coercions: every string of at most        *)
(* MaxStrLen characters over a space, two signs, two digits and a letter,   *)
(* "true" and "false" and near misses of them, and the non-strings.        *)
(***************************************************************************)
CoerceAlphabet == {" ", "-", "+", "0", "1", "a"}

RECURSIVE StringsUpTo(_, _)
StringsUpTo(alphabet, n) ==
    IF n = 0 THEN {<<>>}
    ELSE LET shorter == StringsUpTo(alphabet, n - 1)
         IN  shorter \cup {Append(s, c) : s \in shorter, c \in alphabet}

CoerceStrings ==
    StringsUpTo(CoerceAlphabet, MaxStrLen)
        \cup {S_true, S_false, <<"t", "r", "u">>, <<"T", "r", "u", "e">>,
              <<" ", "1", "0", " ">>, <<"1", " ", "1">>}

CoerceInputs ==
    {StrV(s) : s \in CoerceStrings}
        \cup {Num(n) : n \in {-1, 0, 1, 7}} \cup {Bool(b) : b \in BOOLEAN}

(***************************************************************************)
(* Coercion steps: one call of createLiteral or createIdentifierOrLiteral. *)
(***************************************************************************)
InitCoerce ==
    /\ tree = NoNode
    /\ prev = NoNode
    /\ call = [op |-> "none"]
    /\ hist = {}

CreateLiteral(val) ==
    /\ tree' = createLiteral(val)
    /\ prev' = NoNode
    /\ call' = [op |-> "createLiteral", val |-> val]
    /\ UNCHANGED hist

CreateIdentifierOrLiteral(val) ==
    /\ tree' = createIdentifierOrLiteral(val)
    /\ prev' = NoNode
    /\ call' = [op |-> "createIdentifierOrLiteral", val |-> val]
    /\ UNCHANGED hist

NextCoerce ==
    \E val \in CoerceInputs :
        \/ CreateLiteral(val)
        \/ CreateIdentifierOrLiteral(val)

SpecCoerce == InitCoerce /\ [][NextCoerce]_vars

(***************************************************************************)
(* Dotted names.                                                           *)
(***************************************************************************)
\* str.split("."): the pieces between the dots, empty pieces kept
RECURSIVE Split(_)
Split(str) ==
    IF \A i \in 1..Len(str) : str[i] # "."
    THEN <<str>>
    ELSE LET dot == CHOOSE i \in 1..Len(str) :
                        str[i] = "." /\ \A k \in 1..(i - 1) : str[k] # "."
         IN  <<SubSeq(str, 1, dot - 1)>> \o Split(SubSeq(str, dot + 1, Len(str)))

\* array.reverse()
\* (a reversal that reverses nothing, for comparison)
Reverse_kept(seq) == seq

Reverse(seq) == [i \in 1..Len(seq) |-> seq[Len(seq) + 1 - i]]

\* [a, b].join(".")
JoinDot(a, b) == a \o <<".">> \o b

RECURSIVE memberExpressionToPathString(_)
memberExpressionToPathString(path) ==
    IF path.type = "MemberExpression"
    THEN JoinDot(memberExpressionToPathString(path.object), path.property.name)
    ELSE path.name

RECURSIVE pathsToMemberExpression(_)
pathsToMemberExpression(paths) ==
    IF paths = <<>> THEN NoNode
    ELSE IF Len(paths) = 1 THEN Identifier(paths[1])
    ELSE MemberExpression(pathsToMemberExpression(Tail(paths)),
                          pathsToMemberExpression(<<paths[1]>>))

(***************************************************************************)
(* findPluginsByName: the constructor calls under the array whose callee   *)
(* reads as one of the names, as the indices of the array's elements (in   *)
(* the model a constructor call is never nested inside another one).       *)
(***************************************************************************)
\* (a search that finds nothing, for comparison)
findPluginsByName_none(elements, pluginNamesArray) == {}

findPluginsByName(elements, pluginNamesArray) ==
    {i \in 1..Len(elements) :
        /\ elements[i].type = "NewExpression"
        /\ \E n \in 1..Len(pluginNamesArray) :
               memberExpressionToPathString(elements[i].callee)
                   = pluginNamesArray[n]}

(***************************************************************************)
(* createProperty: the key goes through createIdentifierOrLiteral, the     *)
(* value through createLiteral.                                            *)
(***************************************************************************)
createProperty(key, value) ==
    Property(createIdentifierOrLiteral(StrV(key)), createLiteral(value))

\* Object.keys(options).map(key => createProperty(j, key, options[key]))
OptionsProps(options) ==
    [i \in 1..Len(options.o) |-> createProperty(options.o[i].k, options.o[i].v)]

\* node.value of a key node: a literal has one, an identifier has none
ValueField(node) == IF node.type = "Literal" THEN node.value ELSE Undefined

\* the names of the identifiers found under one entry of a property list
IdentifierNames(entry) ==
    IF entry.type = "Identifier" THEN {entry.name}
    ELSE IF entry.type = "Property"
    THEN {n.name : n \in {m \in {entry.key, entry.value} : m.type = "Identifier"}}
    ELSE {}

(***************************************************************************)
(* One option merged into the properties of an existing argument object:   *)
(* the identifiers under the properties whose name is strictly equal to    *)
(* opt.key.value name the entries to replace; with none, opt is pushed.    *)
(***************************************************************************)
MergeOption(properties, opt) ==
    LET existingProps ==
            {i \in 1..Len(properties) :
                \E name \in IdentifierNames(properties[i]) :
                    ValueField(opt.key) = StrV(name)}
    IN  IF existingProps # {}
        THEN [i \in 1..Len(properties) |->
                 IF i \in existingProps THEN opt ELSE properties[i]]
        ELSE Append(properties, opt)

RECURSIVE MergeOptions(_, _)
MergeOptions(properties, optionsProps) ==
    IF optionsProps = <<>> THEN properties
    ELSE MergeOptions(MergeOption(properties, Head(optionsProps)),
                      Tail(optionsProps))

\* one matching constructor call given the options
UpdatePlugin(plugin, optionsProps) ==
    LET args == plugin.arguments
        objects == {i \in 1..Len(args) : args[i].type = "ObjectExpression"}
        first == CHOOSE i \in objects : \A k \in objects : i <= k
    IN  IF args = <<>>
        THEN [plugin EXCEPT !.arguments = <<ObjectExpression(optionsProps)>>]
        ELSE IF objects = {} THEN Thrown
        ELSE [plugin EXCEPT !.arguments[first].properties =
                                MergeOptions(@, optionsProps)]

(***************************************************************************)
(* createOrUpdatePluginByName on the `plugins` array expression.  options  *)
(* is a mapping or undefined.                                              *)
(***************************************************************************)
createOrUpdatePluginByName(root, pluginName, options) ==
    LET pluginInstancePath == findPluginsByName(root.elements, <<pluginName>>)
        given == options # Undefined
        optionsProps == IF given THEN OptionsProps(options) ELSE <<>>
        updated == [i \in 1..Len(root.elements) |->
                       IF i \in pluginInstancePath /\ given
                       THEN UpdatePlugin(root.elements[i], optionsProps)
                       ELSE root.elements[i]]
        loaderPluginInstance ==
            NewExpression(pathsToMemberExpression(Reverse(Split(pluginName))),
                          IF given THEN <<ObjectExpression(optionsProps)>>
                          ELSE <<>>)
    IN  IF pluginInstancePath # {}
        THEN IF \E i \in 1..Len(updated) : updated[i] = Thrown THEN Thrown
             ELSE [root EXCEPT !.elements = updated]
        ELSE [root EXCEPT !.elements = Append(@, loaderPluginInstance)]

(***************************************************************************)
(* Upserts into a `plugins` array that starts empty.                       *)
(***************************************************************************)
MaxCalls == 3

S_a == <<"a">>

S_b == <<"b">>

S_k == <<"k">>

S_m == <<"m">>

S_x == <<"x">>

PluginNames ==
    {S_a, S_b, <<"a", ".", "b">>, <<"b", ".", "a">>,
     <<"a", ".", "b", ".", "c">>}

PluginOptions ==
    {Undefined,
     ObjV(<<>>),
     ObjV(<<[k |-> S_k, v |-> Num(1)]>>),
     ObjV(<<[k |-> S_k, v |-> StrV(<<"2">>)], [k |-> S_m, v |-> StrV(S_x)]>>)}

InitPlugins ==
    /\ tree = ArrayExpression(<<>>)
    /\ prev = NoNode
    /\ call = [op |-> "none", n |-> 0]
    /\ hist = {}

CreateOrUpdatePluginByName(pluginName, options) ==
    /\ tree.type = "ArrayExpression"
    /\ call.n < MaxCalls
    /\ tree' = createOrUpdatePluginByName(tree, pluginName, options)
    /\ prev' = tree
    /\ call' = [op |-> "createOrUpdatePluginByName", n |-> call.n + 1,
                pluginName |-> pluginName, options |-> options]
    /\ hist' = hist \cup {pluginName}

NextPlugins ==
    \E pluginName \in PluginNames, options \in PluginOptions :
        CreateOrUpdatePluginByName(pluginName, options)

SpecPlugins == InitPlugins /\ [][NextPlugins]_vars

(***************************************************************************)
(* Descriptions and the object-expression helpers.                         *)
(***************************************************************************)
IsThrown(node) == node.type = "Thrown"

\* a JavaScript value that is no AST node, sitting where a node belongs
Raw(value) == [type |-> "Raw", raw |-> value]

\* val.hasOwnProperty("type")
HasOwnType(val) == "type" \in DOMAIN val

\* a value tested as a condition
Truthy(v) ==
    CASE v.t = "num" -> v.n # 0
      [] v.t = "bool" -> v.b
      [] v.t = "str" -> v.s # <<>>
      [] v.t \in {"undef", "nan"} -> FALSE
      [] OTHER -> TRUE

DigitChar == <<"0", "1", "2", "3", "4", "5", "6", "7", "8", "9">>

\* Object.keys(value) with the value under each key
Entries(value) ==
    CASE value.t = "obj" -> value.o
      [] value.t = "arr" ->
           [i \in 1..Len(value.a) |-> [k |-> <<DigitChar[i]>>, v |-> value.a[i]]]
      [] value.t = "str" ->
           [i \in 1..Len(value.s) |->
               [k |-> <<DigitChar[i]>>, v |-> StrV(<<value.s[i]>>)]]
      [] OTHER -> <<>>

\* prop.indexOf("inject") >= 0
\* (a test for the marker at the start of the key only, for comparison)
IsInjectable_prefix(key) ==
    Len(key) >= Len(S_inject) /\ SubSeq(key, 1, Len(S_inject)) = S_inject

IsInjectable(key) == Contains(key, S_inject)

createObjectWithSuppliedProperty(key, prop) == Property(Identifier(key), prop)

createEmptyArrayProperty(key) == Property(Identifier(key), ArrayExpression(<<>>))

\* node.properties.push(entry), or node.elements.push(entry) for an array
Push(node, entry) ==
    IF IsThrown(node) \/ IsThrown(entry) THEN Thrown
    ELSE IF node.type = "ObjectExpression"
    THEN [node EXCEPT !.properties = Append(@, entry)]
    ELSE IF node.type = "ArrayExpression"
    THEN [node EXCEPT !.elements = Append(@, entry)]
    ELSE Thrown

RECURSIVE loopThroughObjects(_, _)
RECURSIVE createArrayWithChildren(_, _, _)
RECURSIVE LoopKeys(_, _)
RECURSIVE ArrayChildren(_, _)
RECURSIVE PushValues(_, _)

\* one element of a sequence value: a string is coerced, anything else is
\* looped through as an object
ArrayChild(subProperty) ==
    IF ~IsString(subProperty)
    THEN loopThroughObjects(ObjectExpression(<<>>), subProperty)
    ELSE createIdentifierOrLiteral(subProperty)

ArrayChildren(arr, subProps) ==
    IF subProps = <<>> \/ IsThrown(arr) THEN arr
    ELSE ArrayChildren(Push(arr, ArrayChild(Head(subProps))), Tail(subProps))

\* elements.push(createIdentifierOrLiteral(value)) for each value in turn
PushValues(arr, values) ==
    IF values = <<>> \/ IsThrown(arr) THEN arr
    ELSE PushValues(Push(arr, createIdentifierOrLiteral(Head(values))),
                    Tail(values))

\* subProps[key]
Lookup(obj, key) ==
    LET hits == {i \in 1..Len(obj.o) : obj.o[i].k = key}
    IN  IF obj.t # "obj" \/ hits = {} THEN Undefined
        ELSE obj.o[CHOOSE i \in hits : TRUE].v

createArrayWithChildren(key, subProps, shouldDropKeys) ==
    LET arr == createEmptyArrayProperty(key)
        elements ==
            IF shouldDropKeys
            THEN IF subProps.t = "arr"
                 THEN ArrayChildren(arr.value, subProps.a)
                 ELSE Thrown
            ELSE IF Lookup(subProps, key) = Undefined THEN Thrown
            ELSE LET under == Entries(Lookup(subProps, key))
                 IN  PushValues(arr.value, [i \in 1..Len(under) |-> under[i].v])
    IN  IF IsThrown(elements) THEN Thrown ELSE [arr EXCEPT !.value = elements]

\* the body of loopThroughObjects' forEach for one key
LoopKey(p, prop, value) ==
    IF IsInjectable(prop)
    THEN Push(p, createIdentifierOrLiteral(value))
    ELSE IF value.t \notin {"obj", "arr"}
    THEN Push(p, createObjectWithSuppliedProperty(prop,
                     createIdentifierOrLiteral(value)))
    ELSE IF value.t = "arr"
    THEN Push(p, createArrayWithChildren(prop, value, TRUE))
    ELSE LET objectBlock == loopThroughObjects(ObjectExpression(<<>>), value)
         IN  IF IsThrown(objectBlock) THEN Thrown
             ELSE Push(p, createObjectWithSuppliedProperty(prop, objectBlock))

LoopKeys(p, entries) ==
    IF entries = <<>> \/ IsThrown(p) THEN p
    ELSE LoopKeys(LoopKey(p, Head(entries).k, Head(entries).v), Tail(entries))

loopThroughObjects(p, obj) == LoopKeys(p, Entries(obj))

(***************************************************************************)
(* checkIfExistsAndAddValue on the object expression node.value: the first *)
(* property with the key gets the value; with none, a property is built.   *)
(* Reading prop.key.name of an entry that has no key is a TypeError, and   *)
(* the property builder refuses a value that is no node.                   *)
(***************************************************************************)
KeyNameIs(entry, name) ==
    /\ entry.type = "Property"
    /\ entry.key.type = "Identifier"
    /\ entry.key.name = name

Least(indices) == CHOOSE i \in indices : \A k \in indices : i <= k

\* checkIfExistsAndAddValue, were it to assign to every match (for comparison)
checkIfExistsAndAddValue_all(object, key, value) ==
    IF object.type # "ObjectExpression" THEN Thrown
    ELSE IF \E i \in 1..Len(object.properties) :
                object.properties[i].type # "Property"
    THEN Thrown
    ELSE LET existingProp ==
                 {i \in 1..Len(object.properties) :
                     KeyNameIs(object.properties[i], key)}
         IN  IF existingProp # {}
             THEN [object EXCEPT !.properties =
                      [i \in 1..Len(@) |->
                          IF i \in existingProp THEN [@[i] EXCEPT !.value = value]
                          ELSE @[i]]]
             ELSE IF value.type = "Raw" THEN Thrown
             ELSE Push(object, Property(Identifier(key), value))

checkIfExistsAndAddValue(object, key, value) ==
    IF object.type # "ObjectExpression" THEN Thrown
    ELSE IF \E i \in 1..Len(object.properties) :
                object.properties[i].type # "Property"
    THEN Thrown
    ELSE LET existingProp ==
                 {i \in 1..Len(object.properties) :
                     KeyNameIs(object.properties[i], key)}
         IN  IF existingProp # {}
             THEN [object EXCEPT !.properties[Least(existingProp)].value = value]
             ELSE IF value.type = "Raw" THEN Thrown
             ELSE Push(object, Property(Identifier(key), value))

\* pushCreateProperty on the object expression p.value; val is a value of
\* the description or a node
pushCreateProperty(object, key, val) ==
    LET property == IF HasOwnType(val) THEN val ELSE createIdentifierOrLiteral(val)
    IN  IF object.type # "ObjectExpression" THEN Thrown
        ELSE Push(object, createObjectWithSuppliedProperty(key, property))

(***************************************************************************)
(* The deduplication step (./hashtable): the distinct values in the order  *)
(* of their first occurrence.                                              *)
(***************************************************************************)
RECURSIVE hashtable(_)
hashtable(arr) ==
    IF arr = <<>> THEN <<>>
    ELSE LET front == hashtable(SubSeq(arr, 1, Len(arr) - 1))
             last == arr[Len(arr)]
         IN  IF \E i \in 1..Len(front) : front[i] = last THEN front
             ELSE Append(front, last)

\* the elem.value of the elements that have a truthy one
RECURSIVE ElementValues(_)
ElementValues(elements) ==
    IF elements = <<>> THEN <<>>
    ELSE (IF Head(elements).type = "Literal" /\ Truthy(Head(elements).value)
          THEN <<Head(elements).value>> ELSE <<>>)
         \o ElementValues(Tail(elements))

\* the merge of one found array property under reassign
MergeArrayProperty(property, newValues) ==
    IF property.value.type # "ArrayExpression" THEN Thrown
    ELSE LET arraytomerge == ElementValues(property.value.elements) \o newValues
             merged == PushValues(property.value, hashtable(arraytomerge))
         IN  IF IsThrown(merged) THEN Thrown
             ELSE [property EXCEPT !.value = merged]

(***************************************************************************)
(* j(p).find(j.Property, {key: {name}}).forEach(merge): every property     *)
(* below the node whose key has the name is merged, at any depth.          *)
(***************************************************************************)
RECURSIVE MergeUnder(_, _, _)
MergeUnder(node, name, newValues) ==
    CASE node.type = "ObjectExpression" ->
           LET below == [i \in 1..Len(node.properties) |->
                            MergeUnder(node.properties[i], name, newValues)]
           IN  IF \E i \in 1..Len(below) : IsThrown(below[i]) THEN Thrown
               ELSE [node EXCEPT !.properties = below]
      [] node.type = "ArrayExpression" ->
           LET below == [i \in 1..Len(node.elements) |->
                            MergeUnder(node.elements[i], name, newValues)]
           IN  IF \E i \in 1..Len(below) : IsThrown(below[i]) THEN Thrown
               ELSE [node EXCEPT !.elements = below]
      [] node.type = "Property" ->
           LET below == MergeUnder(node.value, name, newValues)
               inner == [node EXCEPT !.value = below]
           IN  IF IsThrown(below) THEN Thrown
               ELSE IF node.key.type = "Identifier" /\ node.key.name = name
               THEN MergeArrayProperty(inner, newValues)
               ELSE inner
      [] OTHER -> node

\* if (!reassign) pushCreateProperty(j, prop, webpackProp, j.objectExpression([]))
\* (creation in either mode, for comparison)
CreatesNested_always(reassign) == TRUE

CreatesNested(reassign) == ~reassign

(***************************************************************************)
(* pushObjectKeys on the object expression p.value.  PushKey is the body   *)
(* of the inner forEach for the property at index i and one key.           *)
(***************************************************************************)
RECURSIVE pushObjectKeys(_, _, _, _)
RECURSIVE PushKeys(_, _, _, _)
RECURSIVE PushProps(_, _, _, _)

\* p.value.properties.filter(n => safeTraverse(n, ["key", "name"]) === name)
NamedProps(object, name) ==
    {i \in 1..Len(object.properties) : KeyNameIs(object.properties[i], name)}

\* the object with the value of its property i replaced
WithValue(object, i, value) ==
    IF IsThrown(value) THEN Thrown
    ELSE [object EXCEPT !.properties[i].value = value]

PushKey(object, i, webpackProp, value, reassign) ==
    LET prop == object.properties[i]
    IN  IF IsInjectable(webpackProp)
        THEN IF reassign
             THEN WithValue(object, i,
                      checkIfExistsAndAddValue(prop.value, webpackProp, Raw(value)))
             ELSE IF prop.value.type # "ObjectExpression" THEN Thrown
             ELSE WithValue(object, i,
                      Push(prop.value, createIdentifierOrLiteral(value)))
        ELSE IF value.t = "arr"
        THEN IF reassign
             THEN MergeUnder(object, webpackProp, value.a)
             ELSE IF prop.value.type # "ObjectExpression" THEN Thrown
             ELSE WithValue(object, i,
                      Push(prop.value,
                           createArrayWithChildren(webpackProp, value, TRUE)))
        ELSE IF value.t # "obj"
        THEN WithValue(object, i, pushCreateProperty(prop.value, webpackProp, value))
        ELSE LET created ==
                     IF CreatesNested(reassign)
                     THEN pushCreateProperty(prop.value, webpackProp,
                                             ObjectExpression(<<>>))
                     ELSE prop.value
             IN  IF IsThrown(created) THEN Thrown
                 ELSE WithValue(object, i,
                          pushObjectKeys(created, value, webpackProp, reassign))

PushKeys(object, i, entries, reassign) ==
    IF entries = <<>> \/ IsThrown(object) THEN object
    ELSE PushKeys(PushKey(object, i, Head(entries).k, Head(entries).v, reassign),
                  i, Tail(entries), reassign)

\* the outer forEach, over the indices of the matching properties in order
PushProps(object, indices, entries, reassign) ==
    IF indices = {} \/ IsThrown(object) THEN object
    ELSE PushProps(PushKeys(object, Least(indices), entries, reassign),
                   indices \ {Least(indices)}, entries, reassign)

pushObjectKeys(object, webpackProperties, name, reassign) ==
    IF object.type # "ObjectExpression" THEN Thrown
    ELSE PushProps(object, NamedProps(object, name),
                   Entries(webpackProperties), reassign)

(***************************************************************************)
(* Descriptions handed to the merge: at most MaxKeys keys, one of them     *)
(* carrying the marker, over scalars, sequences and nested mappings.       *)
(***************************************************************************)
MaxKeys == 2

S_n == <<"n">>

S_xinject == <<"x">> \o S_inject

DescKeys == {S_a, S_b, S_xinject}

DescValues ==
    {Num(1), StrV(<<"2">>), StrV(S_x),
     ArrV(<<Num(2), Num(3)>>),
     ArrV(<<StrV(S_x), ObjV(<<[k |-> S_a, v |-> Num(1)]>>)>>),
     ObjV(<<>>),
     ObjV(<<[k |-> S_a, v |-> Num(1)]>>),
     ObjV(<<[k |-> S_b, v |-> ArrV(<<Num(2)>>)]>>)}

RECURSIVE DescEntries(_)
DescEntries(n) ==
    IF n = 0 THEN {<<>>}
    ELSE LET shorter == DescEntries(n - 1)
         IN  shorter \cup
             {Append(d, [k |-> key, v |-> value]) :
                 d \in {e \in shorter : Len(e) = n - 1},
                 key \in DescKeys, value \in DescValues}

Descriptions ==
    {ObjV(d) : d \in {e \in DescEntries(MaxKeys) :
                         \A i, j \in 1..Len(e) : e[i].k = e[j].k => i = j}}

Prop(key, value) == Property(Identifier(key), value)

MergeTargets ==
    {ObjectExpression(<<>>),
     ObjectExpression(<<Prop(S_b, Literal(Num(1)))>>),
     ObjectExpression(<<Prop(S_n, ObjectExpression(<<>>))>>),
     ObjectExpression(<<Prop(S_n, ObjectExpression(<<Prop(S_a, Literal(Num(1)))>>))>>),
     ObjectExpression(<<Prop(S_n, ObjectExpression(
         <<Prop(S_a, ArrayExpression(<<Literal(Num(1)), Literal(Num(2))>>))>>))>>),
     ObjectExpression(<<Prop(S_n, ObjectExpression(
         <<Prop(S_a, ObjectExpression(<<>>))>>))>>),
     ObjectExpression(<<Prop(S_n, ObjectExpression(
         <<Prop(S_xinject, Literal(Num(0))),
           Prop(S_b, ObjectExpression(
               <<Prop(S_a, ArrayExpression(<<Literal(Num(2))>>))>>))>>))>>),
     ObjectExpression(<<Prop(S_n, Literal(Num(1)))>>)}

InitMerge ==
    /\ tree \in MergeTargets
    /\ prev = NoNode
    /\ call = [op |-> "none", n |-> 0]
    /\ hist = {}

LoopThroughObjects(obj) ==
    /\ tree.type = "ObjectExpression"
    /\ call.n = 0
    /\ tree' = loopThroughObjects(tree, obj)
    /\ prev' = tree
    /\ call' = [op |-> "loopThroughObjects", n |-> 1, d |-> obj,
                name |-> <<>>, reassign |-> FALSE]
    /\ UNCHANGED hist

PushObjectKeys(webpackProperties, name, reassign) ==
    /\ tree.type = "ObjectExpression"
    /\ call.n = 0
    /\ tree' = pushObjectKeys(tree, webpackProperties, name, reassign)
    /\ prev' = tree
    /\ call' = [op |-> "pushObjectKeys", n |-> 1, d |-> webpackProperties,
                name |-> name, reassign |-> reassign]
    /\ UNCHANGED hist

\* the same call once more, on what the first one left
PushObjectKeysAgain ==
    /\ tree.type = "ObjectExpression"
    /\ call.op = "pushObjectKeys"
    /\ call.n = 1
    /\ tree' = pushObjectKeys(tree, call.d, call.name, call.reassign)
    /\ prev' = tree
    /\ call' = [call EXCEPT !.n = 2]
    /\ UNCHANGED hist

NextMerge ==
    \/ \E obj \in Descriptions : LoopThroughObjects(obj)
    \/ \E obj \in Descriptions, reassign \in BOOLEAN :
           PushObjectKeys(obj, S_n, reassign)
    \/ PushObjectKeysAgain

SpecMerge == InitMerge /\ [][NextMerge]_vars

(***************************************************************************)
(* Targets in which a name or a key occurs more than once.                 *)
(***************************************************************************)
Callee_a == Identifier(S_a)

FanoutArrays ==
    {ArrayExpression(<<NewExpression(Callee_a, <<>>), NewExpression(Callee_a, <<>>)>>),
     ArrayExpression(
         <<NewExpression(Callee_a,
               <<ObjectExpression(<<Prop(S_k, Literal(Num(0)))>>)>>),
           NewExpression(Identifier(S_b), <<>>),
           NewExpression(Callee_a,
               <<ObjectExpression(<<Prop(S_m, Literal(Num(0)))>>)>>)>>),
     ArrayExpression(
         <<NewExpression(Callee_a, <<>>),
           NewExpression(Callee_a, <<ObjectExpression(<<>>)>>)>>)}

FanoutObjects ==
    {ObjectExpression(
         <<Prop(S_n, ObjectExpression(<<>>)),
           Prop(S_n, ObjectExpression(
               <<Prop(S_a, ArrayExpression(<<Literal(Num(1))>>))>>))>>),
     ObjectExpression(
         <<Prop(S_n, ObjectExpression(<<Prop(S_a, Literal(Num(1)))>>)),
           Prop(S_b, Literal(Num(1))),
           Prop(S_n, ObjectExpression(<<Prop(S_a, Literal(Num(1)))>>))>>),
     ObjectExpression(
         <<Prop(S_a, Literal(Num(1))), Prop(S_b, Literal(Num(1))),
           Prop(S_a, Literal(Num(2)))>>),
     ObjectExpression(<<Prop(S_a, Literal(Num(1)))>>)}

FanoutValues == {Literal(Num(7)), Identifier(S_x)}

InitFanout ==
    /\ tree \in FanoutArrays \cup FanoutObjects
    /\ prev = NoNode
    /\ call = [op |-> "none", n |-> 0]
    /\ hist = {}

CheckIfExistsAndAddValue(key, value) ==
    /\ tree.type = "ObjectExpression"
    /\ call.n = 0
    /\ tree' = checkIfExistsAndAddValue(tree, key, value)
    /\ prev' = tree
    /\ call' = [op |-> "checkIfExistsAndAddValue", n |-> 1, key |-> key,
                value |-> value]
    /\ UNCHANGED hist

NextFanout ==
    \/ \E pluginName \in PluginNames, options \in PluginOptions :
           CreateOrUpdatePluginByName(pluginName, options)
    \/ \E obj \in Descriptions, reassign \in BOOLEAN :
           PushObjectKeys(obj, S_n, reassign)
    \/ \E key \in {S_a, S_b, S_n}, value \in FanoutValues :
           CheckIfExistsAndAddValue(key, value)

SpecFanout == InitFanout /\ [][NextFanout]_vars

(***************************************************************************)
(* What the claims speak of.                                               *)
(***************************************************************************)
IsUpsert == call.op = "createOrUpdatePluginByName"

\* a constructor call whose callee reads as the dotted name
CalleeIs(element, name) ==
    /\ element.type = "NewExpression"
    /\ memberExpressionToPathString(element.callee) = name

FoundIn(array, name) ==
    {i \in 1..Len(array.elements) : CalleeIs(array.elements[i], name)}

OptionKeys(options) == {options.o[i].k : i \in 1..Len(options.o)}

KeyCount(properties, key) ==
    Cardinality({j \in 1..Len(properties) : KeyNameIs(properties[j], key)})

\* the segments of a callee read from the left
RECURSIVE Segments(_)
Segments(path) ==
    IF path.type = "MemberExpression"
    THEN Segments(path.object) \o Segments(path.property)
    ELSE <<path.name>>

(***************************************************************************)
(* C8.  The claim as written: "true" and "false" give boolean literals, a  *)
(* string that is in full the written form of a number (a sign and digits, *)
(* at least one digit) gives that number, every other string -- the empty  *)
(* string and white space included -- gives a string literal from          *)
(* createLiteral and an identifier from createIdentifierOrLiteral, and a   *)
(* number or boolean gives a literal of itself.                            *)
(***************************************************************************)
IsNumeral(s) ==
    LET trimmed == TrimRight(TrimLeft(s))
    IN  /\ trimmed # <<>>
        /\ \/ AllDigits(trimmed)
           \/ Head(trimmed) \in {"-", "+"} /\ AllDigits(Tail(trimmed))

NumeralValue(s) ==
    LET trimmed == TrimRight(TrimLeft(s))
    IN  IF Head(trimmed) = "-" THEN 0 - DigitsValue(Tail(trimmed))
        ELSE IF Head(trimmed) = "+" THEN DigitsValue(Tail(trimmed))
        ELSE DigitsValue(trimmed)

ClaimedCoercion(val, other) ==
    IF ~IsString(val) THEN Literal(val)
    ELSE IF val.s = S_true THEN Literal(Bool(TRUE))
    ELSE IF val.s = S_false THEN Literal(Bool(FALSE))
    ELSE IF IsNumeral(val.s) THEN Literal(Num(NumeralValue(val.s)))
    ELSE other

C8_CoercionRule ==
    /\ call.op = "createLiteral" =>
           tree = ClaimedCoercion(call.val, Literal(call.val))
    /\ call.op = "createIdentifierOrLiteral" =>
           tree = ClaimedCoercion(call.val, Identifier(call.val.s))


(***************************************************************************)
(* C1.  Found case with an argument object: an option key the object       *)
(* already has ends with exactly one property, carrying the new coerced    *)
(* value, and the object grows only by the option keys it did not have.    *)
(***************************************************************************)
C1_ReplacedNotDuplicated ==
    (IsUpsert /\ call.options # Undefined /\ ~IsThrown(tree)) =>
        \A i \in FoundIn(prev, call.pluginName) :
            (/\ prev.elements[i].arguments # <<>>
             /\ prev.elements[i].arguments[1].type = "ObjectExpression") =>
                LET before == prev.elements[i].arguments[1].properties
                    after == tree.elements[i].arguments[1].properties
                    present == {k \in OptionKeys(call.options) :
                                   KeyCount(before, k) > 0}
                IN  /\ \A k \in present :
                           /\ KeyCount(after, k) = 1
                           /\ \A j \in 1..Len(after) :
                                  KeyNameIs(after[j], k) =>
                                      after[j].value
                                          = createLiteral(Lookup(call.options, k))
                    /\ Len(after) = Len(before)
                           + Cardinality(OptionKeys(call.options) \ present)

(***************************************************************************)
(* C4.  Not-found case: one constructor call is appended after the         *)
(* elements already there, its callee reads back as the dotted name with   *)
(* the segments in their order, and its arguments are one object with a    *)
(* property per option key, or none when no options are given.             *)
(***************************************************************************)
C4_NotFoundAppendsOne ==
    (IsUpsert /\ FoundIn(prev, call.pluginName) = {}) =>
        /\ ~IsThrown(tree)
        /\ Len(tree.elements) = Len(prev.elements) + 1
        /\ SubSeq(tree.elements, 1, Len(prev.elements)) = prev.elements
        /\ LET new == tree.elements[Len(tree.elements)]
           IN  /\ new.type = "NewExpression"
               /\ memberExpressionToPathString(new.callee) = call.pluginName
               /\ Segments(new.callee) = Split(call.pluginName)
               /\ IF call.options = Undefined THEN new.arguments = <<>>
                  ELSE /\ Len(new.arguments) = 1
                       /\ new.arguments[1].type = "ObjectExpression"
                       /\ Len(new.arguments[1].properties) = Len(call.options.o)
                       /\ \A j \in 1..Len(call.options.o) :
                              KeyNameIs(new.arguments[1].properties[j],
                                        call.options.o[j].k)

C4_Witness ==
    /\ IsUpsert
    /\ FoundIn(prev, call.pluginName) = {}
    /\ Len(prev.elements) = 2
    /\ Len(Split(call.pluginName)) = 3
    /\ call.options # Undefined
    /\ Len(call.options.o) = 2

(***************************************************************************)
(* C6.  From an empty array, after any upserts, the array holds exactly    *)
(* one constructor call for each name upserted: an upsert of a name that   *)
(* is present appends nothing, one of an absent name appends one.          *)
(***************************************************************************)
C6_OneCallPerName ==
    /\ tree.type = "ArrayExpression"
    /\ \A name \in hist : Cardinality(FoundIn(tree, name)) = 1
    /\ Len(tree.elements) = Cardinality(hist)
    /\ IsUpsert =>
           Len(tree.elements) = Len(prev.elements)
               + (IF FoundIn(prev, call.pluginName) = {} THEN 1 ELSE 0)

C6_Witness ==
    /\ IsUpsert
    /\ call.n = 3
    /\ Cardinality(hist) = 2
    /\ FoundIn(prev, call.pluginName) # {}
    /\ call.options # Undefined

(***************************************************************************)
(* The merge claims.                                                       *)
(***************************************************************************)
IsLoop == call.op = "loopThroughObjects"

IsPush == call.op = "pushObjectKeys"

\* the properties named `name` whose value is an object expression
NamedObjects(object, name) ==
    {i \in 1..Len(object.properties) :
        /\ KeyNameIs(object.properties[i], name)
        /\ object.properties[i].value.type = "ObjectExpression"}

HasMarker(key) == Contains(key, S_inject)

\* what one description key leaves in the property list
EntryFor(entry, kv) ==
    IF HasMarker(kv.k)
    THEN IsScalar(kv.v) =>
             /\ entry.type \in {"Identifier", "Literal"}
             /\ entry = createIdentifierOrLiteral(kv.v)
    ELSE KeyNameIs(entry, kv.k)

EntriesFor(before, after, d) ==
    /\ Len(after) = Len(before) + Len(d.o)
    /\ \A j \in 1..Len(d.o) : EntryFor(after[Len(before) + j], d.o[j])

(***************************************************************************)
(* C7.  In loopThroughObjects and in pushObjectKeys without reassign, a    *)
(* key that contains "inject" and has a scalar value appends one entry,    *)
(* the bare value node, at the place its order in the description gives;   *)
(* the keys without the marker are appended as key: value properties.      *)
(***************************************************************************)
C7_InjectableBypass ==
    /\ (IsLoop /\ ~IsThrown(tree)) =>
           /\ EntriesFor(prev.properties, tree.properties, call.d)
           /\ SubSeq(tree.properties, 1, Len(prev.properties)) = prev.properties
    /\ (IsPush /\ ~call.reassign /\ ~IsThrown(tree)) =>
           \A i \in NamedObjects(prev, call.name) :
               EntriesFor(prev.properties[i].value.properties,
                          tree.properties[i].value.properties, call.d)

C7_Witness ==
    /\ IsPush
    /\ ~call.reassign
    /\ ~IsThrown(tree)
    /\ NamedObjects(prev, call.name) # {}
    /\ Len(call.d.o) = 2
    /\ HasMarker(call.d.o[2].k)
    /\ call.d.o[2].v = StrV(S_x)
    /\ call.d.o[1].v.t = "obj"
    /\ \E i \in NamedObjects(tree, call.name) :
           \E j \in 1..Len(tree.properties[i].value.properties) :
               tree.properties[i].value.properties[j] = Identifier(S_x)

(***************************************************************************)
(* C10.  Under reassign a nested-mapping key that the named object lacks   *)
(* creates nothing and changes nothing; with no property of the name the   *)
(* target is unchanged in either mode; without reassign the missing        *)
(* object is created once and then populated.                              *)
(***************************************************************************)
AbsentNested(object, name, d) ==
    {d.o[j].k : j \in {l \in 1..Len(d.o) :
        /\ d.o[l].v.t = "obj"
        /\ ~HasMarker(d.o[l].k)
        /\ \A i \in NamedProps(object, name) :
               /\ i \in NamedObjects(object, name)
               /\ KeyCount(object.properties[i].value.properties, d.o[l].k) = 0}}

Without(d, keys) ==
    LET Kept(e) == e.k \notin keys
    IN  ObjV(SelectSeq(d.o, Kept))

C10_AbsentTarget ==
    (IsPush /\ call.n = 1) =>
        LET absent == AbsentNested(prev, call.name, call.d)
        IN  /\ NamedProps(prev, call.name) = {} => tree = prev
            /\ call.reassign =>
                   /\ tree = pushObjectKeys(prev, Without(call.d, absent),
                                            call.name, TRUE)
                   /\ OptionKeys(call.d) = absent => tree = prev
                   /\ ~IsThrown(tree) =>
                          \A k \in absent, i \in NamedObjects(tree, call.name) :
                              KeyCount(tree.properties[i].value.properties, k) = 0
            /\ (~call.reassign /\ ~IsThrown(tree)) =>
                   \A k \in absent, i \in NamedObjects(prev, call.name) :
                       LET after == tree.properties[i].value.properties
                       IN  /\ KeyCount(after, k) = 1
                           /\ \A j \in 1..Len(after) :
                                  KeyNameIs(after[j], k) =>
                                      /\ after[j].value.type = "ObjectExpression"
                                      /\ Len(after[j].value.properties)
                                             = Len(Lookup(call.d, k).o)

C10_Witness ==
    /\ IsPush
    /\ call.n = 1
    /\ call.reassign
    /\ NamedObjects(prev, call.name) # {}
    /\ Len(call.d.o) = 1
    /\ call.d.o[1].k \in AbsentNested(prev, call.name, call.d)
    /\ call.d.o[1].v.o # <<>>
    /\ tree = prev

(***************************************************************************)
(* C2.  Sequence merge under reassign: an array property with the literal  *)
(* elements E, merged with the sequence S, ends holding E in its order and *)
(* then the values of S that E lacks, each value once.                     *)
(***************************************************************************)
\* the values an element list reads back as
ReadElements(elements) ==
    [i \in 1..Len(elements) |->
        IF elements[i].type = "Literal" THEN elements[i].value
        ELSE IF elements[i].type = "Identifier" THEN StrV(elements[i].name)
        ELSE Undefined]

ClaimedMerge(existing, new) ==
    LET Lacking(v) == \A i \in 1..Len(existing) : existing[i] # v
    IN  existing \o SelectSeq(hashtable(new), Lacking)

LiteralArray(node) ==
    /\ node.type = "ArrayExpression"
    /\ \A i \in 1..Len(node.elements) : node.elements[i].type = "Literal"
    /\ \A i, j \in 1..Len(node.elements) :
           node.elements[i] = node.elements[j] => i = j

C2_SequenceMerge ==
    (IsPush /\ call.reassign /\ call.n = 1 /\ ~IsThrown(tree)) =>
        \A i \in NamedObjects(prev, call.name) :
            \A j \in 1..Len(prev.properties[i].value.properties) :
                \A l \in 1..Len(call.d.o) :
                    LET before == prev.properties[i].value.properties[j]
                        after == tree.properties[i].value.properties[j]
                        new == call.d.o[l]
                    IN  (/\ new.v.t = "arr"
                         /\ \A e \in 1..Len(new.v.a) : new.v.a[e].t = "num"
                         /\ KeyNameIs(before, new.k)
                         /\ LiteralArray(before.value)) =>
                            ReadElements(after.value.elements)
                                = ClaimedMerge(ReadElements(before.value.elements),
                                               new.v.a)

(***************************************************************************)
(* C3.  pushObjectKeys under reassign twice in a row leaves what one call  *)
(* leaves: the same keys as often, the same final values, arrays of the    *)
(* same elements.                                                          *)
(***************************************************************************)
RECURSIVE Canon(_)
Canon(node) ==
    CASE node.type = "ObjectExpression" ->
           LET keyed == {j \in 1..Len(node.properties) :
                            /\ node.properties[j].type = "Property"
                            /\ node.properties[j].key.type = "Identifier"}
               names == {node.properties[j].key.name : j \in keyed}
               LastOf(k) == CHOOSE j \in keyed :
                                /\ node.properties[j].key.name = k
                                /\ \A m \in keyed :
                                       node.properties[m].key.name = k => m <= j
           IN  [kind |-> "object",
                count |-> [k \in names |-> KeyCount(node.properties, k)],
                final |-> [k \in names |->
                              Canon(node.properties[LastOf(k)].value)]]
      [] node.type = "ArrayExpression" ->
           [kind |-> "array",
            items |-> [i \in 1..Len(node.elements) |-> Canon(node.elements[i])]]
      [] OTHER -> node

C3_ReassignIdempotent ==
    (/\ IsPush
     /\ call.reassign
     /\ call.n = 2
     /\ ~IsThrown(tree)
     /\ NamedProps(prev, call.name) # {}) => Canon(tree) = Canon(prev)

(***************************************************************************)
(* C5.  loopThroughObjects on a fresh empty object, for a description      *)
(* without injectable keys: the keys of the description in their order,    *)
(* nested mappings likewise, and every scalar read back as the claim has   *)
(* it (numbers and numeric strings as numbers, "true" and "false" as       *)
(* booleans, any other string as a string literal).                        *)
(***************************************************************************)
RECURSIVE NoMarker(_)
NoMarker(value) ==
    value.t \in {"obj", "arr"} =>
        \A i \in 1..Len(Entries(value)) :
            /\ value.t = "obj" => ~HasMarker(value.o[i].k)
            /\ NoMarker(Entries(value)[i].v)

RECURSIVE ClaimedNode(_)
ClaimedNode(value) ==
    CASE value.t = "obj" ->
           ObjectExpression([i \in 1..Len(value.o) |->
               Property(Identifier(value.o[i].k), ClaimedNode(value.o[i].v))])
      [] value.t = "arr" ->
           ArrayExpression([i \in 1..Len(value.a) |-> ClaimedNode(value.a[i])])
      [] OTHER -> ClaimedCoercion(value, Literal(value))

C5_LoopRoundTrip ==
    (IsLoop /\ prev = ObjectExpression(<<>>) /\ NoMarker(call.d)) =>
        tree = ClaimedNode(call.d)

(***************************************************************************)
(* C9.  Several matches.  As claimed: every constructor call with the name *)
(* gets the options, every property named `name` is pushed to, and every   *)
(* property with the key gets the value from checkIfExistsAndAddValue,     *)
(* with no error of the several matches' own.                              *)
(***************************************************************************)
\* the argument object of a constructor call
ArgumentObject(plugin) ==
    LET objects == {i \in 1..Len(plugin.arguments) :
                       plugin.arguments[i].type = "ObjectExpression"}
    IN  plugin.arguments[Least(objects)]

\* the entries one call of pushObjectKeys appends to a named object
Growth(d, reassign) ==
    Cardinality({j \in 1..Len(d.o) :
        ~reassign \/ (~HasMarker(d.o[j].k) /\ IsScalar(d.o[j].v))})

\* the object with the i-th property as its one property of the name
OnlyMatch(object, name, i) ==
    LET kept == {j \in 1..Len(object.properties) :
                    j = i \/ ~KeyNameIs(object.properties[j], name)}
        RECURSIVE Take(_)
        Take(j) == IF j > Len(object.properties) THEN <<>>
                   ELSE IF j \in kept
                        THEN <<object.properties[j]>> \o Take(j + 1)
                        ELSE Take(j + 1)
    IN  ObjectExpression(Take(1))

UpsertReachesAll ==
    (IsUpsert /\ call.options # Undefined) =>
        /\ ~IsThrown(tree)
        /\ \A i \in FoundIn(prev, call.pluginName) :
               \A k \in OptionKeys(call.options) :
                   \E j \in 1..Len(ArgumentObject(tree.elements[i]).properties) :
                       LET entry == ArgumentObject(tree.elements[i]).properties[j]
                       IN  /\ KeyNameIs(entry, k)
                           /\ entry.value = createLiteral(Lookup(call.options, k))

PushReachesAll ==
    IsPush =>
        /\ ~IsThrown(tree) =>
               \A i \in NamedObjects(prev, call.name) :
                   Len(tree.properties[i].value.properties)
                       = Len(prev.properties[i].value.properties)
                             + Growth(call.d, call.reassign)
        /\ IsThrown(tree) =>
               \E i \in NamedProps(prev, call.name) :
                   IsThrown(pushObjectKeys(OnlyMatch(prev, call.name, i),
                                           call.d, call.name, call.reassign))

IsCheck == call.op = "checkIfExistsAndAddValue"

WithKey(object, key) ==
    {i \in 1..Len(object.properties) : KeyNameIs(object.properties[i], key)}

C9_EveryMatchMutated ==
    /\ UpsertReachesAll
    /\ PushReachesAll
    /\ IsCheck =>
           /\ ~IsThrown(tree)
           /\ \A i \in WithKey(prev, call.key) :
                  tree.properties[i].value = call.value

(***************************************************************************)
(* C9 as amended: checkIfExistsAndAddValue gives the value to the first    *)
(* property with the key alone and leaves the later ones as they were.     *)
(***************************************************************************)
C9_FanOutButFirstOnly ==
    /\ UpsertReachesAll
    /\ PushReachesAll
    /\ IsCheck =>
           /\ ~IsThrown(tree)
           /\ WithKey(prev, call.key) # {} =>
                  /\ Len(tree.properties) = Len(prev.properties)
                  /\ \A i \in 1..Len(prev.properties) :
                         tree.properties[i] =
                             IF i = Least(WithKey(prev, call.key))
                             THEN [prev.properties[i] EXCEPT !.value = call.value]
                             ELSE prev.properties[i]

C9_Witness ==
    /\ IsCheck
    /\ Cardinality(WithKey(prev, call.key)) = 2
    /\ tree # prev
    /\ call.value = Literal(Num(7))

====
